---- MODULE Spec2Model ----
(***************************************************************************)
(* The finalized chain state of zebra-state (sled_state.rs): the queue of  *)
(* out-of-order blocks, the commit of one block into the seven sled trees  *)
(* and the read operations on them; the pending UTXO requests; the block   *)
(* subsidy, CompactInt and the message codec.                              *)
(***************************************************************************)
EXTENDS Integers, Sequences, FiniteSets, TLC

\* ------------------------------------------------------------ bounds
\* Heights of the blocks that are drawn: 0..MaxHeight.
MaxHeight == 1
\* Number of calls of the public API in one behaviour.
MaxCalls == 3
\* Number of those that are direct calls of commit_finalized_direct.
MaxDirect == 1
\* Number of futures PendingUtxos::queue hands out in one behaviour.
MaxWaiters == 2
\* Heights of the stores block_locator is asked about: 0..MaxLocatorHeight.
MaxLocatorHeight == 5
\* Halvings of the heights block_subsidy is asked about: 0..MaxHalvings.
MaxHalvings == 66
\* Lowest 16 bits of the values CompactInt is asked about: 0..MaxCompactLow and
\* the three highest.
MaxCompactLow == 255
\* Bytes of a message body: 0..MaxBody.
MaxBody == 2
\* Frames written to the stream the codec reads, in one behaviour.
MaxFrames == 2
\* Reads that bring bytes of the stream to the buffer, in one behaviour.
MaxReads == 3

\* ------------------------------------------------------------ values
\* Option<T>: None, Some(x).
None == <<>>
Some(x) == <<x>>

\* Result<T, BoxError>.
Ok(x) == <<"Ok", x>>
Err(e) == <<"Err", e>>
IsOk(r) == r[1] = "Ok"
IsErr(r) == r[1] = "Err"

\* The state of the receiving end of a completion channel (oneshot).
Pending == <<"Pending">>
Closed == <<"Closed">>
\* The receiving end itself was dropped by the caller.
Dropped == <<"Dropped">>

EmptyMap == [x \in {} |-> x]

Max(S) == CHOOSE x \in S : \A y \in S : y <= x

\* ------------------------------------------------------------ blocks
\* block::Hash([0; 32]), the parent of the genesis block.
GENESIS_PREVIOUS_BLOCK_HASH == 0

\* The Merkle roots a header may carry. Root 1 binds a block with a coinbase
\* transaction only, root 2 a block with a second, shielded transaction.
MerkleRoots == {1, 2}

Radix == Cardinality(MerkleRoots) + 1

\* The hash of a block is the hash of its header (SHA256d, collision free): the
\* header's fields written as the digits of a number. No header hashes to 0.
HeaderHash(header) == header.previous_block_hash * Radix + header.merkle_root

\* Compute the hash of this block.
BlockHash(block) == HeaderHash(block.header)

\* The hashes of the blocks at height d of every chain (the sentinel at d = 0).
RECURSIVE HashesAt(_)
HashesAt(d) ==
    IF d = 0 THEN {GENESIS_PREVIOUS_BLOCK_HASH}
    ELSE {p * Radix + m : p \in HashesAt(d - 1), m \in MerkleRoots}

PrevHashes == UNION {HashesAt(d) : d \in 0..MaxHeight}

\* The number of ancestors of the block with this hash, itself included.
RECURSIVE ChainLength(_)
ChainLength(hash) == IF hash = 0 THEN 0 ELSE 1 + ChainLength(hash \div Radix)

\* transparent::OutPoint
OutPoint(hash, index) == [hash |-> hash, index |-> index]

\* The transactions a header with this parent and Merkle root binds. The second
\* transaction spends the coinbase output of the parent block.
Transactions(prev, root) ==
    LET bh == prev * Radix + root
        coinbase == [hash |-> <<bh, 0>>, inputs |-> <<>>, outputs |-> <<50>>,
                     sprout_nullifiers |-> <<>>, sapling_nullifiers |-> <<>>]
        shielded == [hash |-> <<bh, 1>>,
                     inputs |-> IF prev = GENESIS_PREVIOUS_BLOCK_HASH THEN <<>>
                                ELSE <<OutPoint(<<prev, 0>>, 0)>>,
                     outputs |-> <<7>>,
                     sprout_nullifiers |-> <<"nf_sprout">>,
                     sapling_nullifiers |-> <<"nf_sapling">>]
    IN  IF root = 1 THEN <<coinbase>> ELSE <<coinbase, shielded>>

Block(prev, root, height) ==
    [header |-> [previous_block_hash |-> prev, merkle_root |-> root],
     height |-> height,
     transactions |-> Transactions(prev, root)]

\* Return the block height reported in the coinbase transaction.
coinbase_height(block) == block.height

\* The blocks the checkpoint verifier hands over: valid blocks, whose reported
\* height is their position in the chain.
ValidBlocks == {Block(p, m, ChainLength(p)) : p \in PrevHashes, m \in MerkleRoots}

\* Every block a caller of the public API can build.
AnyBlocks == {Block(p, m, h) : p \in PrevHashes, m \in MerkleRoots, h \in 0..MaxHeight}

\* ------------------------------------------------------------ state
VARIABLES
    \* FinalizedState: queued blocks, indexed by their parent block hash
    queued_by_prev_hash,
    \* FinalizedState: the sled trees
    hash_by_height, height_by_hash, block_by_height, tx_by_hash,
    utxo_by_outpoint, sprout_nullifiers, sapling_nullifiers,
    \* what the receiver of each completion channel (QueuedBlock.rsp_tx) holds
    rsp,
    \* the number of API calls made
    ncalls,
    \* history: the runs of commit_finalized_direct, in order
    log,
    \* history: the last API call, with the state it started from
    last,
    \* PendingUtxos: for each awaited outpoint the live receivers of its sender
    pending,
    \* the futures PendingUtxos::queue returned, in the order it returned them
    receivers,
    \* history: the same calls without the calls of prune
    shadow,
    \* history: the last call of PendingUtxos, with the state it started from
    plast,
    \* the inserts the commit in progress has still to make (insert by insert view)
    inflight,
    \* the last call of a function that has no state: its arguments, what it returned
    call,
    \* Codec with the buffers it decodes from and encodes to
    codec

vars == <<queued_by_prev_hash, hash_by_height, height_by_hash, block_by_height,
          tx_by_hash, utxo_by_outpoint, sprout_nullifiers, sapling_nullifiers,
          rsp, ncalls, log, last, pending, receivers, shadow, plast, inflight,
          call, codec>>

\* The variables of the pending UTXO requests.
pvars == <<pending, receivers, shadow, plast>>

Trees == {"hash_by_height", "height_by_hash", "block_by_height", "tx_by_hash",
          "utxo_by_outpoint", "sprout_nullifiers", "sapling_nullifiers"}

\* The state as one value, as the methods' self; io counts the calls of zs_insert
\* made in the running API call.
Self ==
    [queued_by_prev_hash |-> queued_by_prev_hash,
     hash_by_height |-> hash_by_height,
     height_by_hash |-> height_by_hash,
     block_by_height |-> block_by_height,
     tx_by_hash |-> tx_by_hash,
     utxo_by_outpoint |-> utxo_by_outpoint,
     sprout_nullifiers |-> sprout_nullifiers,
     sapling_nullifiers |-> sapling_nullifiers,
     rsp |-> rsp,
     log |-> log,
     io |-> 0]

\* FinalizedState::new: an empty queue over an empty database.
FinalizedState_new ==
    /\ queued_by_prev_hash = EmptyMap
    /\ hash_by_height = EmptyMap
    /\ height_by_hash = EmptyMap
    /\ block_by_height = EmptyMap
    /\ tx_by_hash = EmptyMap
    /\ utxo_by_outpoint = EmptyMap
    /\ sprout_nullifiers = EmptyMap
    /\ sapling_nullifiers = EmptyMap
    /\ rsp = EmptyMap
    /\ ncalls = 0
    /\ log = <<>>
    /\ last = [op |-> "new"]
    /\ pending = EmptyMap
    /\ receivers = <<>>
    /\ shadow = [map |-> EmptyMap, rx |-> <<>>]
    /\ plast = [op |-> "default"]
    /\ inflight = <<>>

\* Nothing has been called, and the codec is the one Codec::builder().finish() makes.
Init ==
    /\ FinalizedState_new
    /\ call = [fn |-> "none"]
    /\ codec = None

\* ------------------------------------------------------------ the index store
\* sled::Tree insert: one durable write of one key, replacing the value the key had.
zs_insert(tree, key, value) == (key :> value) @@ tree

\* sled::Tree get.
zs_get(tree, key) == IF key \in DOMAIN tree THEN Some(tree[key]) ELSE None

\* ------------------------------------------------------------ reads
\* tip() without rev(): the first entry of hash_by_height in key order.
tip_first(s) ==
    IF DOMAIN s.hash_by_height = {} THEN None
    ELSE LET height == CHOOSE x \in DOMAIN s.hash_by_height :
                            \A y \in DOMAIN s.hash_by_height : x <= y
         IN  Some(<<height, s.hash_by_height[height]>>)

\* The last entry of hash_by_height in key order.
tip(s) ==
    IF DOMAIN s.hash_by_height = {} THEN None
    ELSE LET height == Max(DOMAIN s.hash_by_height)
         IN  Some(<<height, s.hash_by_height[height]>>)

\* finalized_tip_hash() that falls back to the sentinel whatever the tip is.
finalized_tip_hash_genesis(s) == GENESIS_PREVIOUS_BLOCK_HASH

\* Returns the hash of the current finalized tip block.
finalized_tip_hash(s) ==
    IF tip(s) = None THEN GENESIS_PREVIOUS_BLOCK_HASH ELSE tip(s)[1][2]

\* Returns the height of the current finalized tip block.
finalized_tip_height(s) ==
    IF tip(s) = None THEN None ELSE Some(tip(s)[1][1])

\* A panic of the calling thread.
Panic(message) == <<"Panic", message>>

\* A u32 subtraction below zero: a panic in a build with overflow checks, the
\* difference modulo 2^32 in one without.
Underflow == <<"Underflow">>

\* HashOrHeight
Height(height) == <<"Height", height>>
Hash(hash) == <<"Hash", hash>>

\* The depth of the block with this hash below the tip: a u32 subtraction.
depth(s, hash) ==
    LET height == zs_get(s.height_by_hash, hash)
    IN  IF height = None THEN None
        ELSE IF tip(s) = None THEN Panic("tip must exist")
        ELSE IF tip(s)[1][1] < height[1] THEN Underflow
        ELSE Some(tip(s)[1][1] - height[1])

\* The block at a height, or the block with a hash, looked up by its height.
FinalizedState_block(s, hash_or_height) ==
    IF hash_or_height[1] = "Height"
    THEN zs_get(s.block_by_height, hash_or_height[2])
    ELSE LET height == zs_get(s.height_by_hash, hash_or_height[2])
         IN  IF height = None THEN None
             ELSE zs_get(s.block_by_height, height[1])

\* Returns the transparent::Output pointed to by the given outpoint if it is
\* present.
FinalizedState_utxo(s, outpoint) == zs_get(s.utxo_by_outpoint, outpoint)

\* ------------------------------------------------------------ block locator
\* util::block_locator_heights: the heights 1, 2, 4, ... below the tip that are
\* above genesis.
RECURSIVE locator_steps(_, _)
locator_steps(tip_height, step) ==
    IF tip_height - step > 0
    THEN <<tip_height - step>> \o locator_steps(tip_height, 2 * step)
    ELSE <<>>

\* util::block_locator_heights: the tip, the exponentially spaced heights below
\* it, and last genesis.
block_locator_heights(tip_height) ==
    (IF tip_height > 0 THEN <<tip_height>> ELSE <<>>)
        \o locator_steps(tip_height, 1) \o <<0>>

\* The loop of block_locator that gives up at the first height without a hash.
RECURSIVE locator_hashes_until_gap(_, _)
locator_hashes_until_gap(s, heights) ==
    IF heights = <<>> THEN <<>>
    ELSE LET hash == zs_get(s.hash_by_height, Head(heights))
         IN  IF hash = None THEN <<>>
             ELSE <<hash[1]>> \o locator_hashes_until_gap(s, Tail(heights))

\* The loop of block_locator: the hash of each height that has one, in order.
RECURSIVE locator_hashes(_, _)
locator_hashes(s, heights) ==
    IF heights = <<>> THEN <<>>
    ELSE LET hash == zs_get(s.hash_by_height, Head(heights))
         IN  (IF hash = None THEN <<>> ELSE <<hash[1]>>)
                 \o locator_hashes(s, Tail(heights))

block_locator(s) ==
    LET t == tip(s)
    IN  IF t = None THEN <<>>
        ELSE locator_hashes(s, block_locator_heights(t[1][1]))


\* ------------------------------------------------------------ commit
Write(tree, key, value) == [tree |-> tree, key |-> key, value |-> value]

\* The outputs keyed by an index that starts at one.
OutputWrites_from_one(transaction) ==
    [i \in 1..Len(transaction.outputs) |->
        Write("utxo_by_outpoint", OutPoint(transaction.hash, i),
              transaction.outputs[i])]

\* The inserts of one transaction: itself, its outputs, its nullifiers.
OutputWrites(transaction) ==
    [i \in 1..Len(transaction.outputs) |->
        Write("utxo_by_outpoint", OutPoint(transaction.hash, i - 1),
              transaction.outputs[i])]

SproutWrites(transaction) ==
    [i \in 1..Len(transaction.sprout_nullifiers) |->
        Write("sprout_nullifiers", transaction.sprout_nullifiers[i], <<>>)]

SaplingWrites(transaction) ==
    [i \in 1..Len(transaction.sapling_nullifiers) |->
        Write("sapling_nullifiers", transaction.sapling_nullifiers[i], <<>>)]

TransactionWrites(transaction) ==
    <<Write("tx_by_hash", transaction.hash, transaction)>>
        \o OutputWrites(transaction)
        \o SproutWrites(transaction)
        \o SaplingWrites(transaction)

RECURSIVE TransactionsWrites(_)
TransactionsWrites(transactions) ==
    IF transactions = <<>> THEN <<>>
    ELSE TransactionWrites(Head(transactions)) \o TransactionsWrites(Tail(transactions))

\* Writes with height_by_hash written before hash_by_height.
Writes_height_first(block) ==
    LET height == coinbase_height(block)
        hash == BlockHash(block)
    IN  <<Write("height_by_hash", hash, height),
          Write("hash_by_height", height, hash),
          Write("block_by_height", height, block)>>
            \o TransactionsWrites(block.transactions)

\* Writes with the height index keyed one too high.
Writes_off_by_one(block) ==
    LET height == coinbase_height(block)
        hash == BlockHash(block)
    IN  <<Write("hash_by_height", height + 1, hash),
          Write("height_by_hash", hash, height),
          Write("block_by_height", height, block)>>
            \o TransactionsWrites(block.transactions)

\* The inserts commit_finalized_direct makes for a block, in the order it makes them.
Writes(block) ==
    LET height == coinbase_height(block)
        hash == BlockHash(block)
    IN  <<Write("hash_by_height", height, hash),
          Write("height_by_hash", hash, height),
          Write("block_by_height", height, block)>>
            \o TransactionsWrites(block.transactions)

\* zs_insert(..)? for each write from the i-th on: the insert that is the fail-th
\* of the running API call returns an error, which ends the commit there.
RECURSIVE InsertAll(_, _, _, _)
InsertAll(s, writes, i, fail) ==
    IF i > Len(writes) THEN [self |-> s, failed |-> FALSE]
    ELSE LET s1 == [s EXCEPT !.io = @ + 1]
             w == writes[i]
         IN  IF s1.io = fail THEN [self |-> s1, failed |-> TRUE]
             ELSE InsertAll([s1 EXCEPT ![w.tree] = zs_insert(@, w.key, w.value)],
                            writes, i + 1, fail)

\* Immediately commit `block` to the finalized state.
commit_finalized_direct(s, block, fail) ==
    LET done == InsertAll(s, Writes(block), 1, fail)
    IN  [self |-> done.self,
         result |-> IF done.failed THEN Err("StoreIoError") ELSE Ok(BlockHash(block))]

\* history: one run of commit_finalized_direct, from state s to state after.
LogEntry(s, after, block, rsp_tx, result) ==
    [block |-> block,
     rsp_tx |-> rsp_tx,
     tip |-> tip(s),
     tip_after |-> tip(after),
     sprout |-> DOMAIN s.sprout_nullifiers,
     sapling |-> DOMAIN s.sapling_nullifiers,
     written |-> after.io - s.io - (IF IsErr(result) THEN 1 ELSE 0),
     result |-> result]

\* commit_finalized that puts a block whose commit failed back into the queue.
commit_finalized_requeue(s, queued_block, fail) ==
    LET done == commit_finalized_direct(s, queued_block.block, fail)
        sent == [done.self EXCEPT
                    !.rsp[queued_block.rsp_tx] = done.result,
                    !.log = Append(@, LogEntry(s, done.self, queued_block.block,
                                               queued_block.rsp_tx, done.result))]
    IN  IF IsOk(done.result) THEN sent
        ELSE [sent EXCEPT !.queued_by_prev_hash =
                (queued_block.block.header.previous_block_hash :> queued_block) @@ @]

\* commit_finalized that drops rsp_tx without sending the result.
commit_finalized_silent(s, queued_block, fail) ==
    LET done == commit_finalized_direct(s, queued_block.block, fail)
    IN  [done.self EXCEPT
            !.rsp[queued_block.rsp_tx] = Closed,
            !.log = Append(@, LogEntry(s, done.self, queued_block.block,
                                       queued_block.rsp_tx, done.result))]

\* commit_finalized that gives up when nobody listens: the block is dropped
\* without a commit.
commit_finalized_if_listening(s, queued_block, fail) ==
    IF s.rsp[queued_block.rsp_tx] = Dropped THEN s
    ELSE LET done == commit_finalized_direct(s, queued_block.block, fail)
         IN  [done.self EXCEPT
                !.rsp[queued_block.rsp_tx] = done.result,
                !.log = Append(@, LogEntry(s, done.self, queued_block.block,
                                           queued_block.rsp_tx, done.result))]

\* commit_finalized that sends Ok(hash) whatever the commit returned.
commit_finalized_always_ok(s, queued_block, fail) ==
    LET done == commit_finalized_direct(s, queued_block.block, fail)
    IN  [done.self EXCEPT
            !.rsp[queued_block.rsp_tx] = Ok(BlockHash(queued_block.block)),
            !.log = Append(@, LogEntry(s, done.self, queued_block.block,
                                       queued_block.rsp_tx, done.result))]

\* Commit a finalized block to the state and send the result to its submitter:
\* let _ = rsp_tx.send(result), which fails when the receiver was dropped.
commit_finalized(s, queued_block, fail) ==
    LET done == commit_finalized_direct(s, queued_block.block, fail)
    IN  [done.self EXCEPT
            !.rsp[queued_block.rsp_tx] = IF @ = Dropped THEN Dropped ELSE done.result,
            !.log = Append(@, LogEntry(s, done.self, queued_block.block,
                                       queued_block.rsp_tx, done.result))]

\* The drain loop as an if let: one block at most.
Drain_once(s, fail) ==
    LET key == finalized_tip_hash(s)
    IN  IF key \notin DOMAIN s.queued_by_prev_hash THEN s
        ELSE LET queued_block == s.queued_by_prev_hash[key]
                 removed == [s EXCEPT !.queued_by_prev_hash =
                                [k \in DOMAIN @ \ {key} |-> @[k]]]
             IN  commit_finalized(removed, queued_block, fail)

\* The drain loop taking any queued block, whatever parent it declares.
RECURSIVE Drain_any(_, _)
Drain_any(s, fail) ==
    IF DOMAIN s.queued_by_prev_hash = {} THEN s
    ELSE LET key == Max(DOMAIN s.queued_by_prev_hash)
             queued_block == s.queued_by_prev_hash[key]
             removed == [s EXCEPT !.queued_by_prev_hash =
                            [k \in DOMAIN @ \ {key} |-> @[k]]]
         IN  Drain_any(commit_finalized(removed, queued_block, fail), fail)

\* The drain loop that ends at the first commit that returns an error.
RECURSIVE Drain_until_error(_, _)
Drain_until_error(s, fail) ==
    LET key == finalized_tip_hash(s)
    IN  IF key \notin DOMAIN s.queued_by_prev_hash THEN s
        ELSE LET queued_block == s.queued_by_prev_hash[key]
                 removed == [s EXCEPT !.queued_by_prev_hash =
                                [k \in DOMAIN @ \ {key} |-> @[k]]]
                 done == commit_finalized(removed, queued_block, fail)
             IN  IF IsErr(done.log[Len(done.log)].result) THEN done
                 ELSE Drain_until_error(done, fail)

\* while let Some(queued_block) = queued_by_prev_hash.remove(&finalized_tip_hash())
RECURSIVE Drain(_, _)
Drain(s, fail) ==
    LET key == finalized_tip_hash(s)
    IN  IF key \notin DOMAIN s.queued_by_prev_hash THEN s
        ELSE LET queued_block == s.queued_by_prev_hash[key]
                 removed == [s EXCEPT !.queued_by_prev_hash =
                                [k \in DOMAIN @ \ {key} |-> @[k]]]
             IN  Drain(commit_finalized(removed, queued_block, fail), fail)

\* entry().or_insert(): the entry the key has is kept and the new one dropped.
QueueInsert_keep_first(s, queued_block) ==
    LET prev_hash == queued_block.block.header.previous_block_hash
    IN  IF prev_hash \in DOMAIN s.queued_by_prev_hash
        THEN [s EXCEPT !.rsp[queued_block.rsp_tx] = Closed]
        ELSE [s EXCEPT !.queued_by_prev_hash = (prev_hash :> queued_block) @@ @]

\* HashMap::insert: the entry the key had is dropped, and its sender with it.
QueueInsert(s, queued_block) ==
    LET prev_hash == queued_block.block.header.previous_block_hash
        dropped == IF prev_hash \in DOMAIN s.queued_by_prev_hash
                   THEN {s.queued_by_prev_hash[prev_hash].rsp_tx} ELSE {}
    IN  [s EXCEPT !.queued_by_prev_hash = (prev_hash :> queued_block) @@ @,
                  !.rsp = [c \in DOMAIN @ |->
                            IF c \in dropped /\ @[c] # Dropped THEN Closed ELSE @[c]]]

\* Queue a finalized block to be committed to the state.
queue_and_commit_finalized_blocks(s, queued_block, fail) ==
    Drain(QueueInsert(s, queued_block), fail)

\* ------------------------------------------------------------ actions
Update(s) ==
    /\ queued_by_prev_hash' = s.queued_by_prev_hash
    /\ hash_by_height' = s.hash_by_height
    /\ height_by_hash' = s.height_by_hash
    /\ block_by_height' = s.block_by_height
    /\ tx_by_hash' = s.tx_by_hash
    /\ utxo_by_outpoint' = s.utxo_by_outpoint
    /\ sprout_nullifiers' = s.sprout_nullifiers
    /\ sapling_nullifiers' = s.sapling_nullifiers
    /\ rsp' = s.rsp
    /\ log' = s.log
    /\ ncalls' = ncalls + 1

\* A fresh oneshot channel for a block: named by the block's hash and the number
\* of channels made for that block before.
NewChannel(block) ==
    <<BlockHash(block), Cardinality({c \in DOMAIN rsp : c[1] = BlockHash(block)})>>

LastCall(op, block, rsp_tx, fail, s) ==
    [op |-> op, block |-> block, rsp_tx |-> rsp_tx, fail |-> fail,
     commits |-> Len(s.log) - Len(log),
     before |-> [f \in Trees \cup {"queued_by_prev_hash", "rsp"} |-> Self[f]]]

\* The call returns, leaving state s.
Returns(s, op, block, rsp_tx, fail) ==
    /\ Update(s)
    /\ last' = LastCall(op, block, rsp_tx, fail, s)

\* A caller submits a block with a fresh completion channel. One insert of the
\* call may fail: the fail-th of those the call makes (0: none does).
Enqueue(block) ==
    /\ ncalls < MaxCalls
    /\ LET rsp_tx == NewChannel(block)
           queued_block == [block |-> block, rsp_tx |-> rsp_tx]
           s0 == [Self EXCEPT !.rsp = (rsp_tx :> Pending) @@ @]
           inserts == queue_and_commit_finalized_blocks(s0, queued_block, 0).io
       IN  \E fail \in 0..inserts :
             /\ Returns(queue_and_commit_finalized_blocks(s0, queued_block, fail),
                        "queue", block, rsp_tx, fail)
             /\ UNCHANGED <<pvars, inflight, call, codec>>

\* history: the state a direct commit left, with the commit in the log.
Logged(s, block, done) ==
    [done.self EXCEPT !.log =
        Append(@, LogEntry(s, done.self, block, <<>>, done.result))]

\* A caller commits a block directly.
CommitDirect(block) ==
    /\ ncalls < MaxCalls
    /\ Cardinality({i \in DOMAIN log : log[i].rsp_tx = <<>>}) < MaxDirect
    /\ \E fail \in 0..Len(Writes(block)) :
          /\ Returns(Logged(Self, block, commit_finalized_direct(Self, block, fail)),
                     "direct", block, <<>>, fail)
          /\ UNCHANGED <<pvars, inflight, call, codec>>

Next == \E block \in ValidBlocks : Enqueue(block)

Spec == Init /\ [][Next]_vars

\* The caller of an enqueued block drops the receiver of its completion channel.
DropReceiver(rsp_tx) ==
    /\ ncalls < MaxCalls
    /\ rsp[rsp_tx] = Pending
    /\ rsp' = [rsp EXCEPT ![rsp_tx] = Dropped]
    /\ ncalls' = ncalls + 1
    /\ last' = [op |-> "drop", rsp_tx |-> rsp_tx]
    /\ UNCHANGED <<queued_by_prev_hash, hash_by_height, height_by_hash, block_by_height,
                   tx_by_hash, utxo_by_outpoint, sprout_nullifiers, sapling_nullifiers,
                   log, pvars, inflight, call, codec>>

NextCancel ==
    \/ \E block \in ValidBlocks : Enqueue(block)
    \/ \E rsp_tx \in DOMAIN rsp : DropReceiver(rsp_tx)

SpecCancel == Init /\ [][NextCancel]_vars

NextDirect ==
    \/ \E block \in ValidBlocks : Enqueue(block)
    \/ \E block \in AnyBlocks : CommitDirect(block)

SpecDirect == Init /\ [][NextDirect]_vars

\* ------------------------------------------------------------ pending UTXOs
\* The outpoints callers wait for: the coinbase output of a genesis block and the
\* output of the second transaction of a child of it.
AwaitedOutPoints == {OutPoint(<<1, 0>>, 0), OutPoint(<<5, 1>>, 0)}

\* The Utxo values a notification may carry.
Utxos == {50, 7}

\* The PendingUtxos as one value: the map and the futures handed out.
PendingSelf == [map |-> pending, rx |-> receivers]

\* The iteration orders of a HashMap with these keys.
Orders(keys) ==
    {order \in [1..Cardinality(keys) -> keys] :
        \A i, j \in DOMAIN order : order[i] = order[j] => i = j}

\* The HashMaps from some of the outpoints to a Utxo.
UtxoMaps == UNION {[keys -> Utxos] : keys \in SUBSET AwaitedOutPoints}

\* A broadcast::Sender (a set of live receivers) is dropped: a receiver that was
\* sent nothing finds the channel closed.
drop_sender(p, sender) ==
    [p EXCEPT !.rx = [r \in DOMAIN @ |->
        IF r \in sender /\ @[r].got = <<>>
        THEN [@[r] EXCEPT !.got = <<Err("RecvError")>>] ELSE @[r]]]

\* send() that reaches no receiver.
send_nobody(p, sender, utxo) ==
    [self |-> p,
     result |-> IF sender = {} THEN Err("SendError") ELSE Ok(Cardinality(sender))]

\* broadcast::Sender::send: every live receiver gets the value; an error when
\* there is none.
send(p, sender, utxo) ==
    [self |-> [p EXCEPT !.rx = [r \in DOMAIN @ |->
                  IF r \in sender THEN [@[r] EXCEPT !.got = Append(@, Ok(utxo))]
                  ELSE @[r]]],
     result |-> IF sender = {} THEN Err("SendError") ELSE Ok(Cardinality(sender))]

\* queue() that makes a new channel on every call, dropping the sender the
\* outpoint had.
queue_replace(p, outpoint) ==
    LET receiver == Len(p.rx) + 1
        old == IF outpoint \in DOMAIN p.map THEN p.map[outpoint] ELSE {}
        q == drop_sender(p, old)
    IN  [map |-> (outpoint :> {receiver}) @@ q.map,
         rx |-> Append(q.rx, [outpoint |-> outpoint, got |-> <<>>, live |-> TRUE])]

\* Returns a future that will resolve to the output pointed to by the outpoint:
\* a new receiver of the outpoint's sender, which is made if there is none.
queue(p, outpoint) ==
    LET sender == IF outpoint \in DOMAIN p.map THEN p.map[outpoint] ELSE {}
        receiver == Len(p.rx) + 1
    IN  [map |-> (outpoint :> (sender \cup {receiver})) @@ p.map,
         rx |-> Append(p.rx, [outpoint |-> outpoint, got |-> <<>>, live |-> TRUE])]

\* respond() that looks the sender up with get() and leaves it in the map.
respond_keep(p, outpoint, utxo) ==
    IF outpoint \in DOMAIN p.map
    THEN send(p, p.map[outpoint], utxo).self
    ELSE p

\* Notify all requests waiting for the Utxo pointed to by the given outpoint.
respond(p, outpoint, utxo) ==
    IF outpoint \in DOMAIN p.map
    THEN LET sender == p.map[outpoint]
             removed == [p EXCEPT !.map = [k \in DOMAIN @ \ {outpoint} |-> @[k]]]
         IN  drop_sender(send(removed, sender, utxo).self, sender)
    ELSE p

\* check_against() that stops at the first outpoint it finds pending.
RECURSIVE check_against_first(_, _, _)
check_against_first(p, utxos, order) ==
    IF order = <<>> THEN p
    ELSE LET outpoint == Head(order)
         IN  IF outpoint \in DOMAIN p.map
             THEN LET sender == p.map[outpoint]
                      removed == [p EXCEPT !.map =
                                    [k \in DOMAIN @ \ {outpoint} |-> @[k]]]
                  IN  drop_sender(send(removed, sender, utxos[outpoint]).self, sender)
             ELSE check_against_first(p, utxos, Tail(order))

\* Check the list of pending UTXO requests against the supplied UTXO index, which
\* utxos.iter() walks in the given order.
RECURSIVE check_against(_, _, _)
check_against(p, utxos, order) ==
    IF order = <<>> THEN p
    ELSE LET outpoint == Head(order)
             next == IF outpoint \in DOMAIN p.map
                     THEN LET sender == p.map[outpoint]
                              removed == [p EXCEPT !.map =
                                            [k \in DOMAIN @ \ {outpoint} |-> @[k]]]
                          IN  drop_sender(send(removed, sender, utxos[outpoint]).self,
                                          sender)
                     ELSE p
         IN  check_against(next, utxos, Tail(order))

\* prune() that retains nothing.
prune_all(p) ==
    LET dropped == UNION {p.map[k] : k \in DOMAIN p.map}
    IN  drop_sender([p EXCEPT !.map = EmptyMap], dropped)

\* Remove the senders all of whose receivers have been dropped.
prune(p) ==
    LET retained == {k \in DOMAIN p.map : Cardinality(p.map[k]) > 0}
        dropped == UNION {p.map[k] : k \in DOMAIN p.map \ retained}
    IN  drop_sender([p EXCEPT !.map = [k \in retained |-> @[k]]], dropped)

\* The caller drops the future, and with it the receiver.
cancel(p, receiver) ==
    [map |-> [k \in DOMAIN p.map |-> p.map[k] \ {receiver}],
     rx |-> [p.rx EXCEPT ![receiver].live = FALSE]]

PendingUpdate(p) ==
    /\ pending' = p.map
    /\ receivers' = p.rx

PendingLast(op, args) == [op |-> op, args |-> args, before |-> PendingSelf]

FinalizedUnchanged ==
    UNCHANGED <<queued_by_prev_hash, hash_by_height, height_by_hash, block_by_height,
                tx_by_hash, utxo_by_outpoint, sprout_nullifiers, sapling_nullifiers,
                rsp, ncalls, log, last, inflight, call, codec>>

Queue(outpoint) ==
    /\ Len(receivers) < MaxWaiters
    /\ PendingUpdate(queue(PendingSelf, outpoint))
    /\ shadow' = queue(shadow, outpoint)
    /\ plast' = PendingLast("queue", <<outpoint>>)
    /\ FinalizedUnchanged

Respond(outpoint, utxo) ==
    /\ PendingUpdate(respond(PendingSelf, outpoint, utxo))
    /\ shadow' = respond(shadow, outpoint, utxo)
    /\ plast' = PendingLast("respond", <<outpoint, utxo>>)
    /\ FinalizedUnchanged

CheckAgainst(utxos) ==
    /\ \E order \in Orders(DOMAIN utxos) :
          /\ PendingUpdate(check_against(PendingSelf, utxos, order))
          /\ shadow' = check_against(shadow, utxos, order)
    /\ plast' = PendingLast("check_against", <<utxos>>)
    /\ FinalizedUnchanged

Prune ==
    /\ PendingUpdate(prune(PendingSelf))
    /\ UNCHANGED shadow
    /\ plast' = PendingLast("prune", <<>>)
    /\ FinalizedUnchanged

Cancel(receiver) ==
    /\ receivers[receiver].live
    /\ PendingUpdate(cancel(PendingSelf, receiver))
    /\ shadow' = cancel(shadow, receiver)
    /\ plast' = PendingLast("cancel", <<receiver>>)
    /\ FinalizedUnchanged

NextPending ==
    \/ \E outpoint \in AwaitedOutPoints : Queue(outpoint)
    \/ \E outpoint \in AwaitedOutPoints, utxo \in Utxos : Respond(outpoint, utxo)
    \/ \E utxos \in UtxoMaps : CheckAgainst(utxos)
    \/ Prune
    \/ \E receiver \in DOMAIN receivers : Cancel(receiver)

SpecPending == Init /\ [][NextPending]_vars

\* ------------------------------------------------------------ the state service
IsOkEntry(e) == IsOk(e.result)

\* The inserts into utxo_by_outpoint the commit of a block makes, in order.
UtxoWrites(block) ==
    LET IsUtxo(w) == w.tree = "utxo_by_outpoint"
    IN  SelectSeq(Writes(block), IsUtxo)

\* The (outpoint, output) pairs the commit of a block creates.
Created(block) ==
    LET writes == UtxoWrites(block)
    IN  [outpoint \in {writes[i].key : i \in DOMAIN writes} |->
            writes[CHOOSE i \in DOMAIN writes : writes[i].key = outpoint].value]

\* The batches the notifier is called with after the commits of a call: one for
\* each successful commit, with the outputs it created. A batch is walked in the
\* order the outputs were inserted: by C16 every order leaves the same state.
Batches(entries) ==
    LET committed == SelectSeq(entries, IsOkEntry)
    IN  [i \in DOMAIN committed |->
            LET writes == UtxoWrites(committed[i].block)
            IN  [utxos |-> Created(committed[i].block),
                 order |-> [k \in DOMAIN writes |-> writes[k].key]]]

RECURSIVE notify_batches(_, _, _)
notify_batches(p, batches, i) ==
    IF i > Len(batches) THEN p
    ELSE notify_batches(check_against(p, batches[i].utxos, batches[i].order),
                        batches, i + 1)

\* The notifier is called with each batch in turn.
Notify(batches) ==
    /\ PendingUpdate(notify_batches(PendingSelf, batches, 1))
    /\ shadow' = notify_batches(shadow, batches, 1)
    /\ plast' = PendingLast("notify", <<>>)

\* The call has left state s: the waiters are notified and the call returns.
Notifies(s, block, rsp_tx, fail) ==
    /\ Returns(s, "queue", block, rsp_tx, fail)
    /\ Notify(Batches(SubSeq(s.log, Len(log) + 1, Len(s.log))))
    /\ UNCHANGED <<inflight, call, codec>>

\* A block is handed to the state service: it is queued, the blocks that connect
\* to the tip are committed, and the waiters of the created outputs are notified.
CommitFinalizedBlock(block) ==
    /\ ncalls < MaxCalls
    /\ LET rsp_tx == NewChannel(block)
           queued_block == [block |-> block, rsp_tx |-> rsp_tx]
           s0 == [Self EXCEPT !.rsp = (rsp_tx :> Pending) @@ @]
           inserts == queue_and_commit_finalized_blocks(s0, queued_block, 0).io
       IN  \E fail \in 0..inserts :
             Notifies(queue_and_commit_finalized_blocks(s0, queued_block, fail),
                      block, rsp_tx, fail)

\* A caller asks the state service for an output and waits for it.
AwaitUtxo(outpoint) ==
    /\ ncalls < MaxCalls
    /\ Len(receivers) < MaxWaiters
    /\ PendingUpdate(queue(PendingSelf, outpoint))
    /\ shadow' = queue(shadow, outpoint)
    /\ plast' = PendingLast("queue", <<outpoint>>)
    /\ ncalls' = ncalls + 1
    /\ UNCHANGED <<queued_by_prev_hash, hash_by_height, height_by_hash, block_by_height,
                   tx_by_hash, utxo_by_outpoint, sprout_nullifiers, sapling_nullifiers,
                   rsp, log, last, inflight, call, codec>>

NextService ==
    \/ \E block \in ValidBlocks : CommitFinalizedBlock(block)
    \/ \E outpoint \in AwaitedOutPoints : AwaitUtxo(outpoint)

SpecService == Init /\ [][NextService]_vars

\* ------------------------------------------------------------ insert by insert
\* The commit of the drain loop as a reader of the trees sees it: one insert at a
\* time. The other variables stay as they are.
ReaderFrame ==
    UNCHANGED <<queued_by_prev_hash, rsp, ncalls, log, last, pvars, call, codec>>

\* The drain loop starts the commit of a block that declares the tip as parent.
BeginCommit(block) ==
    /\ inflight = <<>>
    /\ block.header.previous_block_hash = finalized_tip_hash(Self)
    /\ inflight' = Writes(block)
    /\ UNCHANGED <<hash_by_height, height_by_hash, block_by_height, tx_by_hash,
                   utxo_by_outpoint, sprout_nullifiers, sapling_nullifiers>>
    /\ ReaderFrame

\* The next zs_insert of the commit.
Insert ==
    /\ inflight # <<>>
    /\ LET w == Head(inflight)
           s == InsertAll(Self, <<w>>, 1, 0).self
       IN  /\ hash_by_height' = s.hash_by_height
           /\ height_by_hash' = s.height_by_hash
           /\ block_by_height' = s.block_by_height
           /\ tx_by_hash' = s.tx_by_hash
           /\ utxo_by_outpoint' = s.utxo_by_outpoint
           /\ sprout_nullifiers' = s.sprout_nullifiers
           /\ sapling_nullifiers' = s.sapling_nullifiers
    /\ inflight' = Tail(inflight)
    /\ ReaderFrame

\* The next zs_insert of the commit returns an error, which ends the commit.
InsertFails ==
    /\ inflight # <<>>
    /\ inflight' = <<>>
    /\ UNCHANGED <<hash_by_height, height_by_hash, block_by_height, tx_by_hash,
                   utxo_by_outpoint, sprout_nullifiers, sapling_nullifiers>>
    /\ ReaderFrame

NextReader ==
    \/ \E block \in ValidBlocks : BeginCommit(block)
    \/ Insert
    \/ InsertFails

SpecReader == Init /\ [][NextReader]_vars

\* ------------------------------------------------------------ block locator calls
\* The block hashes the stores carry.
LocatorHashes == {1, 2}

\* A store whose hash_by_height holds any heights up to MaxLocatorHeight: what
\* calls of commit_finalized_direct leave that each end at their second insert.
InitLocator ==
    /\ hash_by_height \in UNION {[S -> LocatorHashes] : S \in SUBSET (0..MaxLocatorHeight)}
    /\ queued_by_prev_hash = EmptyMap
    /\ height_by_hash = EmptyMap
    /\ block_by_height = EmptyMap
    /\ tx_by_hash = EmptyMap
    /\ utxo_by_outpoint = EmptyMap
    /\ sprout_nullifiers = EmptyMap
    /\ sapling_nullifiers = EmptyMap
    /\ rsp = EmptyMap
    /\ ncalls = 0
    /\ log = <<>>
    /\ last = [op |-> "new"]
    /\ pending = EmptyMap
    /\ receivers = <<>>
    /\ shadow = [map |-> EmptyMap, rx |-> <<>>]
    /\ plast = [op |-> "default"]
    /\ inflight = <<>>
    /\ call = [fn |-> "none"]
    /\ codec = None

StateUnchanged ==
    UNCHANGED <<queued_by_prev_hash, hash_by_height, height_by_hash, block_by_height,
                tx_by_hash, utxo_by_outpoint, sprout_nullifiers, sapling_nullifiers,
                rsp, ncalls, log, last, pvars, inflight>>

BlockLocator ==
    /\ call.fn = "none"
    /\ call' = [fn |-> "block_locator", ret |-> block_locator(Self)]
    /\ UNCHANGED codec
    /\ StateUnchanged

NextLocator == BlockLocator

SpecLocator == InitLocator /\ [][NextLocator]_vars

\* ------------------------------------------------------------ block subsidy
\* A u64 is its 64 bits, the lowest first. A number too large for one integer
\* of the model is written as its digits in base Limb, the lowest first.
Limb == 100000

\* Half of the number with these digits, rounded down.
RECURSIVE Halve(_)
Halve(digits) ==
    IF digits = <<>> THEN <<>>
    ELSE LET upper == Tail(digits)
             carry == IF upper = <<>> THEN 0 ELSE upper[1] % 2
         IN  <<(carry * Limb + digits[1]) \div 2>> \o Halve(upper)

\* The lowest n bits of the number with these digits.
RECURSIVE BitsOf(_, _)
BitsOf(digits, n) ==
    IF n = 0 THEN <<>>
    ELSE <<digits[1] % 2>> \o BitsOf(Halve(digits), n - 1)

U64(digits) == BitsOf(digits, 64)

\* x <= y for two u64.
U64LessEq(x, y) ==
    \/ x = y
    \/ \E i \in 1..64 : /\ x[i] < y[i]
                        /\ \A j \in (i + 1)..64 : x[j] = y[j]

\* amount::COIN is 100_000_000: MAX_BLOCK_SUBSIDY is 50 * COIN, 5_000_000_000.
MAX_BLOCK_SUBSIDY == U64(<<0, 50000>>)

HALVING_INTERVAL == 210000

\* amount::MAX_MONEY, 21_000_000 * COIN.
MAX_MONEY == U64(<<0, 0, 0, 21>>)

\* Amount::<NonNegative>::try_from(u64): the amounts are 0..=MAX_MONEY.
Amount_try_from(value) ==
    IF U64LessEq(value, MAX_MONEY) THEN Ok(value) ELSE Err("Contains")

\* A shift of a u64 by 64 bits or more: a panic in a build with overflow
\* checks, a shift by the count modulo 64 in one without.
ShiftOverflow == <<"ShiftOverflow">>

\* u64 >> count
Shr(x, count) ==
    IF count >= 64 THEN ShiftOverflow
    ELSE [i \in 1..64 |-> IF i + count <= 64 THEN x[i + count] ELSE 0]

\* block_subsidy without the check of the number of halvings.
block_subsidy_unchecked(height) ==
    LET halvings == height \div HALVING_INTERVAL
        subsidy == Shr(MAX_BLOCK_SUBSIDY, halvings)
    IN  IF subsidy = ShiftOverflow THEN subsidy ELSE Amount_try_from(subsidy)

block_subsidy(height) ==
    LET halvings == height \div HALVING_INTERVAL
    IN  IF halvings >= 64 THEN Amount_try_from(U64(<<0>>))
        ELSE LET subsidy == Shr(MAX_BLOCK_SUBSIDY, halvings)
             IN  IF subsidy = ShiftOverflow THEN subsidy
                 ELSE Amount_try_from(subsidy)

\* The heights asked about: the first two and the last of each halving interval.
SubsidyHeights ==
    {k * HALVING_INTERVAL + d : k \in 0..MaxHalvings, d \in {0, 1, HALVING_INTERVAL - 1}}

BlockSubsidy(height) ==
    /\ call.fn = "none"
    /\ call' = [fn |-> "block_subsidy", height |-> height, ret |-> block_subsidy(height)]
    /\ UNCHANGED codec
    /\ StateUnchanged

NextSubsidy == \E height \in SubsidyHeights : BlockSubsidy(height)

SpecSubsidy == Init /\ [][NextSubsidy]_vars

\* ------------------------------------------------------------ CompactInt
\* A usize or u64 is four words of 16 bits, the lowest first.
Word == 65536

\* The usize of an integer of the model.
Usize(n) == <<n % Word, n \div Word, 0, 0>>

\* std::u16::MAX and std::u32::MAX, as usize or u64
U16_MAX == <<Word - 1, 0, 0, 0>>
U32_MAX == <<Word - 1, Word - 1, 0, 0>>

\* x < y
WordsLess(x, y) ==
    \E i \in 1..4 : /\ x[i] < y[i]
                    /\ \A j \in (i + 1)..4 : x[j] = y[j]

\* write_u16, write_u32, write_u64::<LittleEndian>: the bytes of the words
RECURSIVE LittleEndian(_)
LittleEndian(words) ==
    IF words = <<>> THEN <<>>
    ELSE <<words[1] % 256, words[1] \div 256>> \o LittleEndian(Tail(words))

CompactInt_size(value) ==
    IF WordsLess(value, Usize(253)) THEN 1
    ELSE IF WordsLess(value, U16_MAX) THEN 2
    ELSE IF WordsLess(value, U32_MAX) THEN 5
    ELSE 9

\* The bytes CompactInt(value).bitcoin_serialize writes.
CompactInt_bitcoin_serialize(value) ==
    IF WordsLess(value, Usize(253)) THEN <<value[1]>>
    ELSE IF ~WordsLess(U16_MAX, value) THEN <<253>> \o LittleEndian(SubSeq(value, 1, 1))
    ELSE IF ~WordsLess(U32_MAX, value) THEN <<254>> \o LittleEndian(SubSeq(value, 1, 2))
    ELSE <<255>> \o LittleEndian(value)

\* Script::serialized_size of a script of this many bytes.
Script_serialized_size(script) == CompactInt_size(Usize(script)) + script

\* Input::len of a PrevOut input: the outpoint, the unlock script, the sequence.
Input_len(input) == 36 + Script_serialized_size(input.unlock_script) + 4

\* Output::len: the value and the lock script.
Output_len(output) == 8 + Script_serialized_size(output.lock_script)

\* The sum of the lengths lo..hi of a sequence of lengths, whatever the order
\* they are added in.
RECURSIVE SumLen(_, _, _)
SumLen(lens, lo, hi) ==
    IF lo > hi THEN 0
    ELSE IF lo = hi THEN lens[lo]
    ELSE LET mid == (lo + hi) \div 2
         IN  SumLen(lens, lo, mid) + SumLen(lens, mid + 1, hi)

Transaction_len(transaction) ==
    LET input_lens == [i \in DOMAIN transaction.inputs |->
                          Input_len(transaction.inputs[i])]
        output_lens == [i \in DOMAIN transaction.outputs |->
                           Output_len(transaction.outputs[i])]
    IN  4 + CompactInt_size(Usize(Len(transaction.inputs)))
          + SumLen(input_lens, 1, Len(input_lens))
          + CompactInt_size(Usize(Len(transaction.outputs)))
          + SumLen(output_lens, 1, Len(output_lens))
          + 4

\* The number of bytes Vec<u8>::bitcoin_serialize writes for this many bytes.
Bytes_serialized(bytes) == Len(CompactInt_bitcoin_serialize(Usize(bytes))) + bytes

Input_serialized(input) == 36 + Bytes_serialized(input.unlock_script) + 4

Output_serialized(output) == 8 + Bytes_serialized(output.lock_script)

\* The number of bytes Transaction::bitcoin_serialize writes: the version, the
\* inputs, the outputs, the lock time; nothing for the cached hash.
Transaction_serialized(transaction) ==
    LET input_lens == [i \in DOMAIN transaction.inputs |->
                          Input_serialized(transaction.inputs[i])]
        output_lens == [i \in DOMAIN transaction.outputs |->
                           Output_serialized(transaction.outputs[i])]
    IN  4 + Len(CompactInt_bitcoin_serialize(Usize(Len(transaction.inputs))))
          + SumLen(input_lens, 1, Len(input_lens))
          + Len(CompactInt_bitcoin_serialize(Usize(Len(transaction.outputs))))
          + SumLen(output_lens, 1, Len(output_lens))
          + 4

\* The values asked about: around 0, 253, 2^16, 2^32 and 2^64.
CompactValues ==
    {<<low, high>> \o upper :
        low \in (0..MaxCompactLow) \cup {Word - 3, Word - 2, Word - 1},
        high \in {0, 1, Word - 1},
        upper \in {<<0, 0>>, <<1, 0>>, <<Word - 1, Word - 1>>}}

\* The transactions asked about: inputs and outputs with empty scripts.
CompactTransactions ==
    {[inputs |-> [i \in 1..n |-> [unlock_script |-> 0]],
      outputs |-> [i \in 1..m |-> [lock_script |-> 0]]] :
        n \in {1, 252, MaxCompactLow}, m \in {1, 252, MaxCompactLow}}

CompactIntSize(value) ==
    /\ call.fn = "none"
    /\ call' = [fn |-> "CompactInt::size", value |-> value,
                size |-> CompactInt_size(value),
                written |-> CompactInt_bitcoin_serialize(value)]
    /\ UNCHANGED codec
    /\ StateUnchanged

TransactionLen(transaction) ==
    /\ call.fn = "none"
    /\ call' = [fn |-> "Transaction::len",
                inputs |-> Len(transaction.inputs),
                outputs |-> Len(transaction.outputs),
                len |-> Transaction_len(transaction),
                written |-> Transaction_serialized(transaction)]
    /\ UNCHANGED codec
    /\ StateUnchanged

NextCompactInt ==
    \/ \E value \in CompactValues : CompactIntSize(value)
    \/ \E transaction \in CompactTransactions : TransactionLen(transaction)

SpecCompactInt == Init /\ [][NextCompactInt]_vars

\* ------------------------------------------------------------ codec
\* The length of a Bitcoin message header.
HEADER_LEN == 24

\* Maximum size of a protocol message body.
MAX_PROTOCOL_MESSAGE_LEN == 2097152

\* Magic::from(Network::Mainnet), and the magic of another network.
Magic_Mainnet == <<249, 190, 180, 217>>
Magic_Testnet == <<11, 17, 9, 7>>

\* Command::bytes: the twelve bytes of the command's name.
CommandBytes ==
    [verack |-> <<118, 101, 114, 97, 99, 107, 0, 0, 0, 0, 0, 0>>,
     filteradd |-> <<102, 105, 108, 116, 101, 114, 97, 100, 100, 0, 0, 0>>,
     alert |-> <<97, 108, 101, 114, 116, 0, 0, 0, 0, 0, 0, 0>>]

Command_bitcoin_deserialize(bytes) ==
    IF \E c \in DOMAIN CommandBytes : CommandBytes[c] = bytes
    THEN Ok(CHOOSE c \in DOMAIN CommandBytes : CommandBytes[c] = bytes)
    ELSE Err("unknown command")

RECURSIVE SumBytes(_)
SumBytes(bytes) == IF bytes = <<>> THEN 0 ELSE bytes[1] + SumBytes(Tail(bytes))

\* sha256d::Checksum::from(&body[..]): four bytes that depend on the body.
Checksum(body) ==
    <<(93 + Len(body)) % 256, (246 + SumBytes(body)) % 256, 101, 226>>

\* write_u32::<LittleEndian> and read_u32::<LittleEndian>
write_u32(n) ==
    <<n % 256, (n \div 256) % 256, (n \div 65536) % 256, (n \div 16777216) % 256>>
read_u32(bytes) ==
    bytes[1] + 256 * bytes[2] + 65536 * bytes[3] + 16777216 * bytes[4]

DecodeState_Head == [tag |-> "Head"]
DecodeState_Body(body_len, command, checksum) ==
    [tag |-> "Body", body_len |-> body_len, command |-> command, checksum |-> checksum]

\* Codec::builder().with_max_body_len(max_len).finish(), with nothing read or
\* written yet: src is the buffer decode reads, dst the one encode writes, wire
\* the bytes on their way to src.
Builder_finish(max_len) ==
    [max_len |-> max_len, state |-> DecodeState_Head,
     src |-> <<>>, dst |-> <<>>, wire |-> <<>>,
     frames |-> 0, reads |-> 0, last |-> [op |-> "finish"]]

\* Codec::write_body
write_body(item) ==
    IF item.command = "filteradd" THEN item.data ELSE <<>>

\* encode that refuses a body of max_len bytes too.
encode_below_max(c, item) ==
    LET body == write_body(item)
    IN  IF Len(body) >= c.max_len
        THEN [codec |-> c, ret |-> Err("body length exceeded maximum size")]
        ELSE LET header == Magic_Mainnet \o CommandBytes[item.command]
                               \o write_u32(Len(body)) \o Checksum(body)
             IN  [codec |-> [c EXCEPT !.dst = @ \o header \o body], ret |-> Ok(<<>>)]

\* Encoder<Message>::encode
encode(c, item) ==
    LET body == write_body(item)
    IN  IF Len(body) > c.max_len
        THEN [codec |-> c, ret |-> Err("body length exceeded maximum size")]
        ELSE LET header == Magic_Mainnet \o CommandBytes[item.command]
                               \o write_u32(Len(body)) \o Checksum(body)
             IN  [codec |-> [c EXCEPT !.dst = @ \o header \o body], ret |-> Ok(<<>>)]

\* Codec::read_filteradd: read_exact into an empty Vec reads no byte.
read_filteradd(body) == [command |-> "filteradd", data |-> <<>>]

\* decode in state Body
decode_body(c) ==
    LET body_len == c.state.body_len
    IN  IF Len(c.src) < body_len THEN [codec |-> c, ret |-> Ok(None)]
        ELSE LET body == SubSeq(c.src, 1, body_len)
                 c1 == [c EXCEPT !.src = SubSeq(@, body_len + 1, Len(@)),
                                 !.state = DecodeState_Head]
             IN  IF c.state.checksum # Checksum(body)
                 THEN [codec |-> c1,
                       ret |-> Err("supplied message checksum does not match computed checksum")]
                 ELSE IF c.state.command = "verack"
                 THEN [codec |-> c1, ret |-> Ok(Some([command |-> "verack"]))]
                 ELSE IF c.state.command = "filteradd"
                 THEN [codec |-> c1, ret |-> Ok(Some(read_filteradd(body)))]
                 ELSE [codec |-> c1, ret |-> Ok(None)]

\* Decoder::decode
decode(c) ==
    IF c.state = DecodeState_Head
    THEN IF Len(c.src) < HEADER_LEN THEN [codec |-> c, ret |-> Ok(None)]
         ELSE LET header == SubSeq(c.src, 1, HEADER_LEN)
                  c1 == [c EXCEPT !.src = SubSeq(@, HEADER_LEN + 1, Len(@))]
                  magic == SubSeq(header, 1, 4)
                  command == Command_bitcoin_deserialize(SubSeq(header, 5, 16))
                  body_len == read_u32(SubSeq(header, 17, 20))
                  checksum == SubSeq(header, 21, 24)
              IN  IF IsErr(command) THEN [codec |-> c1, ret |-> command]
                  ELSE IF magic # Magic_Mainnet
                  THEN [codec |-> c1,
                        ret |-> Err("supplied magic did not meet expectations")]
                  ELSE IF body_len > c.max_len
                  THEN [codec |-> c1, ret |-> Err("body length exceeded maximum size")]
                  ELSE decode_body([c1 EXCEPT !.state =
                                      DecodeState_Body(body_len, command[2], checksum)])
    ELSE decode_body(c)

\* The bodies and the messages with a body of up to MaxBody bytes.
Bodies == {[i \in 1..n |-> 7] : n \in 0..MaxBody}
Messages ==
    {[command |-> "verack"]} \cup {[command |-> "filteradd", data |-> b] : b \in Bodies}

\* A frame with this magic, command and body, the length of the body in its
\* header, and the checksum of the body (bad = 0) or another one (bad = 1).
Frame(magic, command, body, bad) ==
    magic \o CommandBytes[command] \o write_u32(Len(body))
        \o <<(Checksum(body)[1] + bad) % 256>> \o Tail(Checksum(body)) \o body

\* The frames a peer may send: the well-formed ones, and for each body a
\* verack of another network and one with a wrong checksum.
PeerFrames ==
    {Frame(Magic_Mainnet, c, body, 0) : c \in DOMAIN CommandBytes, body \in Bodies}
        \cup {Frame(Magic_Testnet, "verack", body, 0) : body \in Bodies}
        \cup {Frame(Magic_Mainnet, "verack", body, 1) : body \in Bodies}

\* The codec is built with the default maximum or a small one.
InitCodec ==
    /\ FinalizedState_new
    /\ call = [fn |-> "none"]
    /\ codec \in {Builder_finish(max_len) :
                    max_len \in (0..MaxBody) \cup {MAX_PROTOCOL_MESSAGE_LEN}}

CodecFrame == UNCHANGED call /\ StateUnchanged

\* encode(item, dst)
Encode(item) ==
    /\ codec.frames < MaxFrames
    /\ LET done == encode(codec, item)
       IN  codec' = [done.codec EXCEPT
                        !.frames = @ + 1,
                        !.last = [op |-> "encode", item |-> item, dst |-> codec.dst,
                                  ret |-> done.ret]]
    /\ CodecFrame

\* What was encoded is written to the stream a codec with the same maximum reads.
Flush ==
    /\ codec.dst # <<>>
    /\ codec' = [codec EXCEPT !.wire = @ \o codec.dst, !.dst = <<>>,
                              !.last = [op |-> "flush"]]
    /\ CodecFrame

\* A peer writes a frame to the stream: any frame first, a verack without a
\* body behind another frame.
PeerSends(frame) ==
    /\ codec.frames < MaxFrames
    /\ codec.frames = 0 \/ frame = Frame(Magic_Mainnet, "verack", <<>>, 0)
    /\ codec' = [codec EXCEPT !.wire = @ \o frame, !.frames = @ + 1,
                              !.last = [op |-> "peer"]]
    /\ CodecFrame

\* FramedRead reads the next n bytes of the stream into the buffer.
Read(n) ==
    /\ codec.reads < MaxReads
    /\ n <= Len(codec.wire)
    /\ codec' = [codec EXCEPT !.src = @ \o SubSeq(codec.wire, 1, n),
                              !.wire = SubSeq(@, n + 1, Len(@)),
                              !.reads = @ + 1,
                              !.last = [op |-> "read"]]
    /\ CodecFrame

\* decode(src)
Decode ==
    /\ LET done == decode(codec)
       IN  codec' = [done.codec EXCEPT
                        !.last = [op |-> "decode", state |-> codec.state,
                                  src |-> codec.src, ret |-> done.ret]]
    /\ CodecFrame

NextCodec ==
    \/ \E item \in Messages : Encode(item)
    \/ Flush
    \/ \E frame \in PeerFrames : PeerSends(frame)
    \/ \E n \in {1, HEADER_LEN - 1, HEADER_LEN, Len(codec.wire)} : Read(n)
    \/ Decode

SpecCodec == InitCodec /\ [][NextCodec]_vars

\* ------------------------------------------------------------ history helpers
PrevOf(block) == block.header.previous_block_hash

TipHashOf(t) == IF t = None THEN GENESIS_PREVIOUS_BLOCK_HASH ELSE t[1][2]

NextHeightOf(t) == IF t = None THEN 0 ELSE t[1][1] + 1

\* The run wrote at least one entry of the block to the trees.
Wrote(e) == e.written > 0

\* The log entries of the last API call.
LastEntries == {i \in DOMAIN log : i > Len(log) - last.commits}

Queued == {queued_by_prev_hash[k] : k \in DOMAIN queued_by_prev_hash}

\* ------------------------------------------------------------ claims
\* C1: for every height h of hash_by_height, height_by_hash[hash_by_height[h]] = h,
\* and for h > 0 the block stored at h declares the hash stored at h - 1 as its
\* parent.
C1_IndexesAgree ==
    \A h \in DOMAIN hash_by_height :
        /\ hash_by_height[h] \in DOMAIN height_by_hash
        /\ height_by_hash[hash_by_height[h]] = h
        /\ h > 0 =>
            /\ h \in DOMAIN block_by_height
            /\ h - 1 \in DOMAIN hash_by_height
            /\ PrevOf(block_by_height[h]) = hash_by_height[h - 1]

\* C1 where no insert has failed.
C1_IndexesAgreeWithoutFault ==
    (\A i \in DOMAIN log : IsOk(log[i].result)) => C1_IndexesAgree

SubmittedHashes == {c[1] : c \in DOMAIN rsp}

\* x is the block y or an ancestor of it.
RECURSIVE IsAncestor(_, _)
IsAncestor(x, y) == y # 0 /\ (y = x \/ IsAncestor(x, y \div Radix))

IsChain(S) == \A x, y \in S : IsAncestor(x, y) \/ IsAncestor(y, x)

\* The blocks of S all of whose ancestors are in S.
Connected(S) == {x \in S : \A a \in 1..x : IsAncestor(a, x) => a \in S}

\* C3: when the blocks submitted so far are distinct blocks of one chain from the
\* sentinel, each submitted once, and no commit failed, then exactly the blocks
\* whose ancestors have all arrived are committed, in chain order, each one
\* answered Ok, the others are the queue, and the last call committed every
\* block that became connected by it.
C3_ChainCommittedInOrder ==
    LET S == SubmittedHashes
    IN  (/\ \A c \in DOMAIN rsp : c[2] = 0
         /\ IsChain(S)
         /\ \A i \in DOMAIN log : IsOk(log[i].result))
        =>
        /\ Len(log) = Cardinality(Connected(S))
        /\ \A i \in DOMAIN log :
            /\ ChainLength(BlockHash(log[i].block)) = i
            /\ BlockHash(log[i].block) \in Connected(S)
            /\ rsp[log[i].rsp_tx] = Ok(BlockHash(log[i].block))
            /\ hash_by_height[i - 1] = BlockHash(log[i].block)
        /\ {BlockHash(q.block) : q \in Queued} = S \ Connected(S)
        /\ last.op = "queue" =>
            last.commits = Cardinality(Connected(S))
                - Cardinality(Connected(S \ {BlockHash(last.block)}))

\* C3's case: the parent arrived last and the buffered run went with it.
C3_Witness ==
    /\ \A c \in DOMAIN rsp : c[2] = 0
    /\ IsChain(SubmittedHashes)
    /\ \A i \in DOMAIN log : IsOk(log[i].result)
    /\ last.op = "queue"
    /\ last.commits >= 2
    /\ last.before.queued_by_prev_hash # EmptyMap
    /\ queued_by_prev_hash = EmptyMap

\* C4: no two blocks that declare the same parent are both committed: once a
\* block declaring P was written to the trees, no later commit runs for a block
\* declaring P.
C4_OneChildPerParent ==
    \A i, j \in DOMAIN log :
        (i < j /\ (Wrote(log[i]) \/ IsOk(log[i].result)))
            => PrevOf(log[j].block) # PrevOf(log[i].block)

\* C4's case: a sibling of a committed block was submitted after it and waits.
C4_Witness ==
    \E i \in DOMAIN log, q \in Queued :
        /\ IsOk(log[i].result)
        /\ PrevOf(q.block) = PrevOf(log[i].block)
        /\ q.block # log[i].block
        /\ last.op = "queue" /\ last.block = q.block

SproutOf(block) ==
    UNION {{tx.sprout_nullifiers[i] : i \in DOMAIN tx.sprout_nullifiers} :
           tx \in {block.transactions[k] : k \in DOMAIN block.transactions}}

SaplingOf(block) ==
    UNION {{tx.sapling_nullifiers[i] : i \in DOMAIN tx.sapling_nullifiers} :
           tx \in {block.transactions[k] : k \in DOMAIN block.transactions}}

\* The run committed a block that reveals a nullifier already in its set.
SpendsTwice(e) ==
    \/ SproutOf(e.block) \cap e.sprout # {}
    \/ SaplingOf(e.block) \cap e.sapling # {}

\* C6: no nullifier is committed twice: the commit of a block that reveals a
\* nullifier already in its set is rejected with DoubleSpend, that error is sent
\* on the block's channel and the tip stays where it was.
C6_DoubleSpendRejected ==
    \A i \in DOMAIN log :
        (SpendsTwice(log[i]) /\ log[i].result # Err("StoreIoError")) =>
            /\ log[i].result = Err("DoubleSpend")
            /\ rsp[log[i].rsp_tx] = Err("DoubleSpend")
            /\ log[i].tip_after = log[i].tip

\* C7: a failed commit is all or nothing: when the one commit of the last call
\* returned an error, every tree is as it was before the call, and so is tip().
C7_FailedCommitWritesNothing ==
    (/\ last.op \in {"queue", "direct"}
     /\ last.commits = 1
     /\ IsErr(log[Len(log)].result))
    =>
    /\ \A t \in Trees : Self[t] = last.before[t]
    /\ tip(Self) = tip(last.before)

\* The queue the last call leaves when it touches no entry but the one it
\* inserts and those it drains.
ExpectedQueue ==
    LET inserted == (PrevOf(last.block) :> [block |-> last.block, rsp_tx |-> last.rsp_tx])
                        @@ last.before.queued_by_prev_hash
        drained == {log[i].rsp_tx : i \in LastEntries}
        kept == {k \in DOMAIN inserted : inserted[k].rsp_tx \notin drained}
    IN  [k \in kept |-> inserted[k]]

ChainsFromTip(s, block) ==
    /\ PrevOf(block) = finalized_tip_hash(s)
    /\ coinbase_height(block) = NextHeightOf(tip(s))

\* C9: commit_finalized_direct checks its ordering precondition: called with a
\* block that does not chain from the tip, or whose height is not the tip's + 1,
\* it writes nothing to any tree.
C9_OrderingAsserted ==
    (last.op = "direct" /\ ~ChainsFromTip(last.before, last.block)) =>
        \A t \in Trees : Self[t] = last.before[t]

\* C10: the queue holds one block per declared parent, under that parent; a
\* block submitted for a parent that already has an entry takes its place, and
\* no commit ever runs for the entry that lost its place.
C10_LastQueuedWins ==
    /\ \A k \in DOMAIN queued_by_prev_hash :
        PrevOf(queued_by_prev_hash[k].block) = k
    /\ (/\ last.op = "queue"
        /\ last.commits = 0) =>
            /\ PrevOf(last.block) \in DOMAIN queued_by_prev_hash
            /\ queued_by_prev_hash[PrevOf(last.block)] =
                    [block |-> last.block, rsp_tx |-> last.rsp_tx]
            /\ PrevOf(last.block) \in DOMAIN last.before.queued_by_prev_hash =>
                    rsp[last.before.queued_by_prev_hash[PrevOf(last.block)].rsp_tx] = Closed
    /\ \A c \in DOMAIN rsp : rsp[c] = Closed =>
        /\ \A i \in DOMAIN log : log[i].rsp_tx # c
        /\ \A q \in Queued : q.rsp_tx # c

\* C10's case: X lost its place to Y, then their parent arrived and Y was
\* committed.
C10_Witness ==
    \E c \in DOMAIN rsp, i \in DOMAIN log :
        /\ rsp[c] = Closed
        /\ IsOk(log[i].result)
        /\ PrevOf(log[i].block) = c[1] \div Radix
        /\ BlockHash(log[i].block) # c[1]
        /\ i > 1

\* The commits that ran for the block submitted with channel c.
RunsOf(c) == {i \in DOMAIN log : log[i].rsp_tx = c}

IsQueued(c) == \E q \in Queued : q.rsp_tx = c

\* Queued: in the queue, nothing sent, no commit ran.
InQueued(c) == IsQueued(c) /\ rsp[c] = Pending /\ RunsOf(c) = {}

\* Committed: out of the queue after its one commit, which sent Ok(hash).
InCommitted(c) ==
    /\ ~IsQueued(c)
    /\ \E i \in RunsOf(c) :
        /\ RunsOf(c) = {i}
        /\ log[i].result = Ok(c[1])
        /\ rsp[c] = log[i].result

\* Rejected: out of the queue after its one commit, which sent its error.
InRejected(c) ==
    /\ ~IsQueued(c)
    /\ \E i \in RunsOf(c) :
        /\ RunsOf(c) = {i}
        /\ IsErr(log[i].result)
        /\ rsp[c] = log[i].result

\* Replaced: out of the queue without a commit, its sender dropped, and another
\* submission declares the same parent.
InReplaced(c) ==
    /\ ~IsQueued(c)
    /\ RunsOf(c) = {}
    /\ rsp[c] = Closed
    /\ \E d \in DOMAIN rsp : d # c /\ d[1] \div Radix = c[1] \div Radix

\* What the receiver of a channel holds is final once it is not Pending.
TerminalStays ==
    last.op = "queue" =>
        \A c \in DOMAIN last.before.rsp :
            last.before.rsp[c] # Pending => rsp[c] = last.before.rsp[c]

\* C11 as stated: every submitted block is Queued, Committed or Rejected, and a
\* block that left the queue stays as it left.
C11_StateMachine ==
    /\ \A c \in DOMAIN rsp : InQueued(c) \/ InCommitted(c) \/ InRejected(c)
    /\ TerminalStays

\* C11, amended: every submitted block is Queued, Committed, Rejected or Replaced
\* (it lost its place to a later block declaring the same parent and its channel
\* was dropped without a result); a block that left the queue stays as it left
\* and never re-enters the queue.
C11_StateMachineWithReplacement ==
    /\ \A c \in DOMAIN rsp :
        InQueued(c) \/ InCommitted(c) \/ InRejected(c) \/ InReplaced(c)
    /\ TerminalStays

\* C11's case: one block was committed, one rejected and one replaced.
C11_Witness ==
    \E c, d, e \in DOMAIN rsp : InCommitted(c) /\ InRejected(d) /\ InReplaced(e)

\* ------------------------------------------------------------ claims: pending UTXOs
\* The futures that were waiting for the outpoint in p: live, nothing received.
WaitingFor(p, outpoint) ==
    {r \in DOMAIN p.rx :
        p.rx[r].outpoint = outpoint /\ p.rx[r].live /\ p.rx[r].got = <<>>}

\* The notifications the last call of PendingUtxos made: outpoint -> Utxo.
Notified ==
    IF plast.op = "respond" THEN (plast.args[1] :> plast.args[2])
    ELSE IF plast.op = "check_against" THEN plast.args[1]
    ELSE EmptyMap

\* C13: the futures waiting for an outpoint are all receivers of the one sender
\* the map holds for it; one respond or check_against for the outpoint resolves
\* every one of them with the Utxo it was given and removes the entry; and no
\* future is resolved twice or finds its channel closed.
C13_OneEntryResolvesAll ==
    /\ \A outpoint \in AwaitedOutPoints :
        /\ WaitingFor(PendingSelf, outpoint) # {} => outpoint \in DOMAIN pending
        /\ outpoint \in DOMAIN pending =>
                pending[outpoint] = WaitingFor(PendingSelf, outpoint)
    /\ \A r \in DOMAIN receivers :
        /\ Len(receivers[r].got) <= 1
        /\ \A i \in DOMAIN receivers[r].got : IsOk(receivers[r].got[i])
    /\ \A outpoint \in DOMAIN Notified :
        /\ outpoint \notin DOMAIN pending
        /\ \A r \in WaitingFor(plast.before, outpoint) :
                receivers[r].got = <<Ok(Notified[outpoint])>>

\* C13's case: two callers waited for the same outpoint and one respond resolved
\* both.
C13_Witness ==
    /\ plast.op = "respond"
    /\ Cardinality(WaitingFor(plast.before, plast.args[1])) >= 2
    /\ \A r \in WaitingFor(plast.before, plast.args[1]) :
            receivers[r].got = <<Ok(plast.args[2])>>

\* C14: respond(o, u) changes only the entry of o: without an entry nothing
\* changes; with one it is removed, every other entry and every future of
\* another sender is as it was; and with no receiver left the entry is removed
\* all the same and nothing else happens.
C14_RespondTouchesOneEntry ==
    plast.op = "respond" =>
        LET o == plast.args[1]
            before == plast.before
        IN  IF o \notin DOMAIN before.map
            THEN pending = before.map /\ receivers = before.rx
            ELSE /\ DOMAIN pending = DOMAIN before.map \ {o}
                 /\ \A k \in DOMAIN pending : pending[k] = before.map[k]
                 /\ \A r \in DOMAIN receivers :
                        r \notin before.map[o] => receivers[r] = before.rx[r]
                 /\ before.map[o] = {} => receivers = before.rx

\* C14's case: respond for an outpoint whose waiters have all gone, while
\* another outpoint is awaited.
C14_Witness ==
    /\ plast.op = "respond"
    /\ plast.args[1] \in DOMAIN plast.before.map
    /\ plast.before.map[plast.args[1]] = {}
    /\ pending # EmptyMap

\* C15: prune removes the entries without a receiver and no other; and a run
\* with calls of prune resolves the same futures with the same values as the same
\* run without them, the two maps differing only in entries without a receiver.
C15_PruneOnlyReclaims ==
    /\ plast.op = "prune" =>
        /\ pending = [k \in {x \in DOMAIN plast.before.map : plast.before.map[x] # {}}
                        |-> plast.before.map[k]]
        /\ receivers = plast.before.rx
    /\ receivers = shadow.rx
    /\ DOMAIN pending \subseteq DOMAIN shadow.map
    /\ \A k \in DOMAIN shadow.map :
        IF k \in DOMAIN pending THEN pending[k] = shadow.map[k]
        ELSE shadow.map[k] = {}

\* C15's case: prune removed an entry, and afterwards a waiter was resolved.
C15_Witness ==
    /\ DOMAIN pending # DOMAIN shadow.map
    /\ plast.op \in {"respond", "check_against"}
    /\ \E outpoint \in DOMAIN Notified : WaitingFor(plast.before, outpoint) # {}

\* respond for every entry of utxos, in the given order.
RECURSIVE RespondAll(_, _, _)
RespondAll(p, utxos, order) ==
    IF order = <<>> THEN p
    ELSE RespondAll(respond(p, Head(order), utxos[Head(order)]), utxos, Tail(order))

\* C16: check_against(utxos) leaves what respond(o, u) for every (o, u) of utxos
\* leaves, whatever the order: the entries of the outpoints of utxos are removed,
\* their waiters hold the matching Utxo and the other entries are as they were.
C16_CheckAgainstIsRespondAll ==
    plast.op = "check_against" =>
        LET utxos == plast.args[1]
            before == plast.before
        IN  /\ \A order \in Orders(DOMAIN utxos) :
                    RespondAll(before, utxos, order) = PendingSelf
            /\ DOMAIN pending = DOMAIN before.map \ DOMAIN utxos
            /\ \A k \in DOMAIN pending : pending[k] = before.map[k]
            /\ \A o \in DOMAIN utxos : \A r \in WaitingFor(before, o) :
                    receivers[r].got = <<Ok(utxos[o])>>

\* C16's case: check_against with two outpoints, each with a waiter.
C16_Witness ==
    /\ plast.op = "check_against"
    /\ Cardinality(DOMAIN plast.args[1]) = 2
    /\ \A o \in DOMAIN plast.args[1] : WaitingFor(plast.before, o) # {}
    /\ \A r \in DOMAIN receivers : Len(receivers[r].got) = 1

\* The outputs of the transactions of a block: outpoint -> output.
OutputsOf(block) ==
    LET made == {<<k, i>> \in (DOMAIN block.transactions) \X (1..2) :
                    i \in DOMAIN block.transactions[k].outputs}
    IN  [outpoint \in {OutPoint(block.transactions[ki[1]].hash, ki[2] - 1) : ki \in made} |->
            LET ki == CHOOSE x \in made :
                        OutPoint(block.transactions[x[1]].hash, x[2] - 1) = outpoint
            IN  block.transactions[ki[1]].outputs[ki[2]]]

C17_ReaderSeesWholeBlocks ==
    /\ tip(Self) # None =>
        LET h == tip(Self)[1][1]
            x == tip(Self)[1][2]
        IN  /\ FinalizedState_block(Self, Height(h)) # None
            /\ BlockHash(FinalizedState_block(Self, Height(h))[1]) = x
            /\ FinalizedState_block(Self, Hash(x)) = FinalizedState_block(Self, Height(h))
            /\ depth(Self, x) = Some(0)
    /\ \A x \in DOMAIN height_by_hash :
        /\ FinalizedState_block(Self, Hash(x)) # None
        /\ BlockHash(FinalizedState_block(Self, Hash(x))[1]) = x

\* The log entries of the commits that returned Ok.
Committed == {i \in DOMAIN log : IsOk(log[i].result)}

\* C18: tip() is None as long as no block was committed successfully, and
\* otherwise the height and hash of the block committed successfully last;
\* after G and then its child A, it is (1, hash(A)).
C18_TipIsLastCommitted ==
    IF Committed = {} THEN tip(Self) = None
    ELSE LET e == log[Max(Committed)]
         IN  tip(Self) = Some(<<coinbase_height(e.block), BlockHash(e.block)>>)

\* C18 where no insert has failed.
C18_TipIsLastCommittedWithoutFault ==
    (\A i \in DOMAIN log : IsOk(log[i].result)) => C18_TipIsLastCommitted

\* The hashes a caller may ask for: those of the blocks, and one of no block.
AskedHashes == {BlockHash(b) : b \in ValidBlocks} \cup {GENESIS_PREVIOUS_BLOCK_HASH}

\* C19: depth(hash) is None when height_by_hash does not have the hash and
\* Some(tip height - height) when it has; every height of height_by_hash is at
\* most the tip height, so the subtraction does not underflow and the tip
\* exists whenever depth() expects it.
C19_DepthIsTipMinusHeight ==
    \A hash \in AskedHashes :
        IF hash \notin DOMAIN height_by_hash THEN depth(Self, hash) = None
        ELSE /\ tip(Self) # None
             /\ height_by_hash[hash] <= tip(Self)[1][1]
             /\ depth(Self, hash) = Some(tip(Self)[1][1] - height_by_hash[hash])

\* C19's case: G and its child A are committed: depth(hash(G)) = 1 and
\* depth(hash(A)) = 0.
C19_Witness ==
    \E g, a \in DOMAIN height_by_hash :
        /\ a \div Radix = g
        /\ depth(Self, g) = Some(1)
        /\ depth(Self, a) = Some(0)

\* C20: utxo() returns every output of every transaction of every block that
\* was committed successfully, in the state the commit left and in every state
\* after it.
C20_OutputsStay ==
    \A i \in Committed :
        \A outpoint \in DOMAIN OutputsOf(log[i].block) :
            FinalizedState_utxo(Self, outpoint) = Some(OutputsOf(log[i].block)[outpoint])

\* The outpoints the transactions of a block spend.
SpentBy(b) ==
    UNION {{tx.inputs[i] : i \in DOMAIN tx.inputs} :
           tx \in {b.transactions[k] : k \in DOMAIN b.transactions}}

\* C20's case: a block was committed that spends an output of a block committed
\* before it, and utxo() still returns that output.
C20_Witness ==
    \E i, j \in Committed :
        /\ i < j
        /\ \E outpoint \in SpentBy(log[j].block) \cap DOMAIN OutputsOf(log[i].block) :
                FinalizedState_utxo(Self, outpoint) = Some(OutputsOf(log[i].block)[outpoint])

\* ------------------------------------------------------------ claims: queue, locator
\* C21: tip() returns the same value before and after a call that runs no
\* commit; and a call of queue_and_commit_finalized_blocks with a block that does
\* not declare the tip hash as parent runs no commit, leaves the seven trees and
\* tip() as they were and changes the queue in the entry of that parent only.
C21_UnconnectedBlockOnlyQueued ==
    /\ (last.op = "queue" /\ last.commits = 0) => tip(Self) = tip(last.before)
    /\ (/\ last.op = "queue"
        /\ PrevOf(last.block) # TipHashOf(tip(last.before))) =>
            /\ last.commits = 0
            /\ \A t \in Trees : Self[t] = last.before[t]
            /\ tip(Self) = tip(last.before)
            /\ queued_by_prev_hash =
                    (PrevOf(last.block) :> [block |-> last.block, rsp_tx |-> last.rsp_tx])
                        @@ last.before.queued_by_prev_hash

\* C21's case: with a block committed and another waiting, a block arrives that
\* does not declare the tip as parent.
C21_Witness ==
    /\ last.op = "queue"
    /\ PrevOf(last.block) # TipHashOf(tip(last.before))
    /\ tip(last.before) # None
    /\ last.before.queued_by_prev_hash # EmptyMap
    /\ Cardinality(DOMAIN queued_by_prev_hash) = 2

\* The state the last call started from, with every receiver that was dropped
\* alive and waiting, and the block of the call queued with its channel.
BeforeAlive ==
    LET before == last.before
    IN  [queued_by_prev_hash |-> before.queued_by_prev_hash,
         hash_by_height |-> before.hash_by_height,
         height_by_hash |-> before.height_by_hash,
         block_by_height |-> before.block_by_height,
         tx_by_hash |-> before.tx_by_hash,
         utxo_by_outpoint |-> before.utxo_by_outpoint,
         sprout_nullifiers |-> before.sprout_nullifiers,
         sapling_nullifiers |-> before.sapling_nullifiers,
         rsp |-> (last.rsp_tx :> Pending) @@
                    [c \in DOMAIN before.rsp |->
                        IF before.rsp[c] = Dropped THEN Pending ELSE before.rsp[c]],
         log |-> <<>>,
         io |-> 0]

\* What the last call leaves when every receiver is alive.
AsIfAlive ==
    queue_and_commit_finalized_blocks(
        BeforeAlive, [block |-> last.block, rsp_tx |-> last.rsp_tx], last.fail)

\* The last call left the trees and the queue, and ran the commits with the
\* results, of the state alive; the result of a commit whose receiver was
\* dropped reached nobody.
SameAsAlive(alive) ==
    /\ \A t \in Trees : Self[t] = alive[t]
    /\ queued_by_prev_hash = alive.queued_by_prev_hash
    /\ last.commits = Len(alive.log)
    /\ \A k \in 1..last.commits :
        LET e == log[Len(log) - last.commits + k]
        IN  /\ e.block = alive.log[k].block
            /\ e.result = alive.log[k].result
            /\ rsp[e.rsp_tx] = IF /\ e.rsp_tx \in DOMAIN last.before.rsp
                                  /\ last.before.rsp[e.rsp_tx] = Dropped
                               THEN Dropped ELSE e.result

\* C22: a block whose receiver was dropped stays in the queue; a call leaves the
\* trees and the queue, and runs the commits with the results, that it leaves
\* and runs when every receiver is alive; and the result of a commit whose
\* receiver was dropped reaches nobody.
C22_DroppedReceiverStillCommitted ==
    /\ last.op = "drop" => IsQueued(last.rsp_tx)
    /\ last.op = "queue" => SameAsAlive(AsIfAlive)

\* C22's case: the receiver of a queued block was dropped, then its parent
\* arrived and both were committed.
C22_Witness ==
    /\ last.op = "queue"
    /\ last.commits = 2
    /\ \E i \in LastEntries :
        /\ rsp[log[i].rsp_tx] = Dropped
        /\ IsOk(log[i].result)
        /\ hash_by_height[coinbase_height(log[i].block)] = BlockHash(log[i].block)

\* The positions of the locator heights of the tip that hash_by_height has.
LocatorKept ==
    LET heights == block_locator_heights(Max(DOMAIN hash_by_height))
    IN  {i \in DOMAIN heights : heights[i] \in DOMAIN hash_by_height}

\* C23: block_locator returns nothing on an empty store, and otherwise the
\* hash_by_height entries of the locator heights of the tip, in the order of
\* those heights, none above the tip, the heights without an entry left out.
C23_LocatorSkipsMissingHeights ==
    call.fn = "block_locator" =>
        /\ DOMAIN hash_by_height = {} => call.ret = <<>>
        /\ DOMAIN hash_by_height # {} =>
            LET heights == block_locator_heights(Max(DOMAIN hash_by_height))
            IN  /\ Len(call.ret) = Cardinality(LocatorKept)
                /\ \A k \in LocatorKept :
                    /\ heights[k] <= Max(DOMAIN hash_by_height)
                    /\ call.ret[Cardinality({j \in LocatorKept : j <= k})]
                           = hash_by_height[heights[k]]

\* A locator of a store with a gap between two of the heights it has.
C23_Witness ==
    /\ call.fn = "block_locator"
    /\ DOMAIN hash_by_height # {}
    /\ LET heights == block_locator_heights(Max(DOMAIN hash_by_height))
       IN  \E i, j, k \in DOMAIN heights :
               /\ i < j /\ j < k
               /\ i \in LocatorKept /\ j \notin LocatorKept /\ k \in LocatorKept
    /\ Len(call.ret) >= 2

\* The digits of floor(digits / 2^k).
RECURSIVE HalveTimes(_, _)
HalveTimes(digits, k) == IF k = 0 THEN digits ELSE HalveTimes(Halve(digits), k - 1)

C26_SizeIsSerializedLength ==
    /\ call.fn = "CompactInt::size" =>
        /\ call.size = Len(call.written)
        /\ call.size = IF WordsLess(call.value, <<253, 0, 0, 0>>) THEN 1
                       ELSE IF WordsLess(call.value, <<0, 1, 0, 0>>) THEN 3
                       ELSE IF WordsLess(call.value, <<0, 0, 1, 0>>) THEN 5
                       ELSE 9
    /\ call.fn = "Transaction::len" => call.len = call.written

\* C27: a call of queue_and_commit_finalized_blocks ends after as many commits
\* as it took entries out of the queue, each iteration taking one and none
\* putting one in; and when it has returned, no entry of the queue is keyed by
\* the hash of the tip (by the genesis parent hash on an empty store).
C27_DrainEndsWithNothingCommittable ==
    last.op = "queue" =>
        /\ Cardinality(DOMAIN queued_by_prev_hash) + last.commits
               = Cardinality(DOMAIN last.before.queued_by_prev_hash
                                \cup {PrevOf(last.block)})
        /\ DOMAIN queued_by_prev_hash
               \subseteq DOMAIN last.before.queued_by_prev_hash \cup {PrevOf(last.block)}
        /\ IF DOMAIN hash_by_height = {}
           THEN GENESIS_PREVIOUS_BLOCK_HASH \notin DOMAIN queued_by_prev_hash
           ELSE hash_by_height[Max(DOMAIN hash_by_height)]
                    \notin DOMAIN queued_by_prev_hash

\* A call that committed two blocks and returned with a block left in the queue.
C27_Witness ==
    /\ last.op = "queue"
    /\ last.commits = 2
    /\ DOMAIN queued_by_prev_hash # {}

\* The runs of commit_finalized for the block sent with this channel.
RunsFor(rsp_tx) == {i \in DOMAIN log : log[i].rsp_tx = rsp_tx}

\* C28: each block the drain loop took has one result on its channel, the
\* result of its one commit; a block still in the queue has none; no channel
\* ever has more than one; and an Ok carries the hash hash_by_height holds at
\* the block's height.
C28_OneResultPerDrainedBlock ==
    /\ \A i \in DOMAIN log :
        /\ RunsFor(log[i].rsp_tx) = {i}
        /\ log[i].rsp_tx \in DOMAIN rsp
        /\ rsp[log[i].rsp_tx] = log[i].result
        /\ \A q \in Queued : q.rsp_tx # log[i].rsp_tx
    /\ \A q \in Queued : rsp[q.rsp_tx] = Pending /\ RunsFor(q.rsp_tx) = {}
    /\ \A c \in DOMAIN rsp : Cardinality(RunsFor(c)) <= 1
    /\ \A i \in DOMAIN log :
        IsOk(rsp[log[i].rsp_tx]) =>
            /\ coinbase_height(log[i].block) \in DOMAIN hash_by_height
            /\ rsp[log[i].rsp_tx] = Ok(hash_by_height[coinbase_height(log[i].block)])

\* One block answered Ok, one answered with an error, one still in the queue.
C28_Witness ==
    /\ \E i \in DOMAIN log : IsOk(rsp[log[i].rsp_tx])
    /\ \E i \in DOMAIN log : IsErr(rsp[log[i].rsp_tx])
    /\ \E q \in Queued : rsp[q.rsp_tx] = Pending

\* Every hash of height_by_hash is the hash hash_by_height holds at its height.
HeightOfHashIsItsHeight ==
    \A x \in DOMAIN height_by_hash :
        /\ height_by_hash[x] \in DOMAIN hash_by_height
        /\ hash_by_height[height_by_hash[x]] = x

\* block(Hash(x)) is never a block with another hash than x.
BlockOfHashIsNoOtherBlock ==
    \A x \in DOMAIN height_by_hash :
        LET found == FinalizedState_block(Self, Hash(x))
        IN  found # None => BlockHash(found[1]) = x

\* C29: hash_by_height and height_by_hash are inverse to each other, and
\* block(Hash(x)) returns, for every x of height_by_hash, a block with hash x.
C29_IndexesMutuallyInverse ==
    /\ HeightOfHashIsItsHeight
    /\ \A h \in DOMAIN hash_by_height :
        /\ hash_by_height[h] \in DOMAIN height_by_hash
        /\ height_by_hash[hash_by_height[h]] = h
    /\ \A x \in DOMAIN height_by_hash :
        LET found == FinalizedState_block(Self, Hash(x))
        IN  found # None /\ BlockHash(found[1]) = x

\* C29 where no insert has failed.
C29_IndexesMutuallyInverseWithoutFault ==
    (\A i \in DOMAIN log : IsOk(log[i].result)) => C29_IndexesMutuallyInverse

\* The last call was decode, in state Head, of a buffer with a whole header.
HeaderDecoded ==
    /\ codec.last.op = "decode"
    /\ codec.last.state = DecodeState_Head
    /\ Len(codec.last.src) >= 24

\* The fields of that header.
HeaderMagic == SubSeq(codec.last.src, 1, 4)
HeaderCommand == SubSeq(codec.last.src, 5, 16)
HeaderBodyLen == read_u32(SubSeq(codec.last.src, 17, 20))
HeaderChecksum == SubSeq(codec.last.src, 21, 24)

\* The body length decode worked with: of the header, or of the state Body.
DecodedBodyLen ==
    IF codec.last.state = DecodeState_Head THEN HeaderBodyLen
    ELSE codec.last.state.body_len

\* The buffer decode was called with held every byte of the frame.
FrameComplete ==
    /\ codec.last.op = "decode"
    /\ \/ HeaderDecoded /\ Len(codec.last.src) >= 24 + HeaderBodyLen
       \/ codec.last.state # DecodeState_Head
            /\ Len(codec.last.src) >= codec.last.state.body_len

\* encode fails, writing nothing, exactly for a body longer than max_len.
EncodeEnforcesMaxLen ==
    codec.last.op = "encode" =>
        LET body == IF codec.last.item.command = "filteradd"
                    THEN codec.last.item.data ELSE <<>>
        IN  /\ IsErr(codec.last.ret) <=> Len(body) > codec.max_len
            /\ IsErr(codec.last.ret) => codec.dst = codec.last.dst
            /\ IsOk(codec.last.ret) =>
                /\ Len(codec.dst) = Len(codec.last.dst) + 24 + Len(body)
                /\ SubSeq(codec.dst, 1, Len(codec.last.dst)) = codec.last.dst
                /\ SubSeq(codec.dst, Len(codec.dst) - Len(body) + 1, Len(codec.dst)) = body

C30_NoneOnlyForMoreData ==
    codec.last.op = "decode" =>
        /\ codec.last.ret = Ok(None) =>
            IF codec.state = DecodeState_Head
            THEN codec.last.state = DecodeState_Head /\ Len(codec.last.src) < 24
            ELSE Len(codec.src) < codec.state.body_len
        /\ FrameComplete =>
            /\ Len(codec.src) < Len(codec.last.src)
            /\ codec.state = DecodeState_Head
            /\ codec.last.ret # Ok(None)

\* C30 for every frame but those of the command alert.
C30_NoneOnlyForMoreDataButAlert ==
    (codec.last.op = "decode"
        /\ ~(HeaderDecoded /\ HeaderCommand = CommandBytes["alert"])
        /\ ~(codec.last.state # DecodeState_Head
                /\ codec.last.state.command = "alert"))
    => C30_NoneOnlyForMoreData

\* decode returned Ok(None) and left a complete frame in the buffer.
C30_HeldBack ==
    /\ codec.last.op = "decode"
    /\ codec.last.ret = Ok(None)
    /\ codec.state = DecodeState_Head
    /\ Len(codec.src) >= 24
    /\ Len(codec.src) >= 24 + read_u32(SubSeq(codec.src, 17, 20))

====
